---------------------------- MODULE Spec2Model ----------------------------
(***************************************************************************)
(* brrr: one postgres test container, one template database, and a pgx     *)
(* pool limited to a single connection through which every instance is     *)
(* cloned from the template (NewInstance) and dropped (CloseInstance).     *)
(*                                                                         *)
(* The model follows src/unnamed/part_000 (the version with seeding);      *)
(* src/container.go is the same code without SeedPath/SeedFunc, i.e. the   *)
(* configurations whose SeedPath and SeedFunc are unset.                   *)
(*                                                                         *)
(* Library behaviour the code relies on and that is modelled here:         *)
(*  - pgxpool.Pool.Acquire(ctx) blocks until fewer than MaxConns           *)
(*    connections are handed out, or returns an error when ctx ends or     *)
(*    the pool cannot connect; Conn.Release gives the connection back.     *)
(*  - uuid.NewString never returns the same value twice.                   *)
(*  - pgx.Conn.Close leaves the connection closed whatever it returns and  *)
(*    returns nil on an already closed connection.                         *)
(*  - the server refuses CREATE DATABASE of an existing name, DROP         *)
(*    DATABASE of a missing name or of a database marked as template.      *)
(*  - a statement or a setup stage that returns an error has changed       *)
(*    nothing on the server.                                               *)
(*  - the pool hands its connection to every waiter in turn (SpecFair).    *)
(***************************************************************************)
EXTENDS Integers, Sequences, FiniteSets, TLC

\* ------------------------------------------------------------------ bounds
\* Number of parallel callers (tests) using one Container.
NumCallers == 2

\* Number of uuids the generator may hand out in one run.
MaxNames == 2

\* Values of one uuid group.
HexDigits == {"0", "1"}

Callers == 1..NumCallers

\* The nil *DatabaseInstance.
NilInstance == [Name |-> <<>>, Connection |-> "nil"]

\* ------------------------------------------------------------ configuration
\* cfg.Database: the template database's name, a string (sequence of tokens).
Database == <<"acme">>

\* The pool's default database (postgres://.../postgres).
AdminDatabase == <<"postgres">>

\* pgxpool conf.MaxConns set by setupPgxPool.
MaxConnsMany == 1 + 1
MaxConns == 1

VARIABLES
    cfg,        \* Config: which of MigrationsPath, SeedPath, SeedFunc are set
    spc,        \* setup's position
    container,  \* the test container: "none", "running", "terminated"
    pool,       \* the pgx pool: "none", "open", "closed"
    held,       \* who holds a connection of the pool (callers, or setup)
    dbs,        \* the server's databases: name -> contents
    setupRet,   \* what setup returned: "none", "ok", "err"
    stages,     \* the stages setup ran, in order
    migrate,    \* what runMigrations met (migrate.New, m.Up, m.Close), until
                \* the next stage starts
    pc,         \* each caller's position
    ctxDone,    \* each caller's context of the call in progress: cancelled?
    name,       \* NewInstance's local variable name
    di,         \* the DatabaseInstance each caller owns, or Nil
    ret,        \* what the caller's last call returned
    inflight,   \* administrative statements being executed by the server
    issued,     \* statements issued by each caller's call in progress
    uuids,      \* the uuids generated so far
    created,    \* names of the databases ever successfully created
    released,   \* names whose CloseInstance returned nil
    closeFailed,\* CloseInstance's err after di.Connection.Close(ctx)
    closeRet    \* what Container.Close returned: "none", "nil", "err"

vars == <<cfg, spc, container, pool, held, dbs, setupRet, stages, migrate, pc, ctxDone,
          name, di, ret, inflight, issued, uuids, created, released,
          closeFailed, closeRet>>

setupVars == <<cfg, spc, container, pool, setupRet, stages, migrate, closeRet>>
callerVars == <<pc, ctxDone, name, di, ret, issued, uuids, created, released,
                closeFailed>>

\* ------------------------------------------------------------------- pool
\* setup's own holder of a pool connection (c), next to the callers 1..NumCallers.
SetupHolder == 0

\* pool.Acquire(ctx) can hand out a connection.
PoolCanAcquire(h) == Cardinality(h) < MaxConns

\* pool.Acquire(ctx) succeeded for who.
PoolAcquire(h, who) == h \cup {who}

\* conn.Release() (deferred).
PoolReleaseLeak(h, who) == h
PoolRelease(h, who) == h \ {who}

\* pool.Acquire(ctx) returned an error: nothing was handed out.
PoolAcquireErrTaken(h, who) == h \cup {who}
PoolAcquireErr(h, who) == h

\* ----------------------------------------------------------------- server
\* Contents of a database: what setup put into it (schema at the latest
\* migration, seed files executed, seed func run), and the template mark.
EmptyContents == [schemaCurrent |-> FALSE, seedFiles |-> FALSE, seedFunc |-> FALSE,
                  is_template |-> FALSE]

\* The databases of a freshly started container (POSTGRES_DB = cfg.Database).
InitialDatabases == (AdminDatabase :> EmptyContents) @@ (Database :> EmptyContents)

\* CREATE DATABASE n TEMPLATE t is accepted.
CreateAccepted(d, n, t) == n \notin DOMAIN d /\ t \in DOMAIN d

\* The databases after CREATE DATABASE n TEMPLATE t.
CreateDatabase(d, n, t) == (n :> [d[t] EXCEPT !.is_template = FALSE]) @@ d

\* DROP DATABASE n WITH (FORCE) is accepted.
DropAccepted(d, n) == n \in DOMAIN d /\ ~d[n].is_template

\* The databases after DROP DATABASE n WITH (FORCE).
DropDatabase(d, n) == [m \in DOMAIN d \ {n} |-> d[m]]

\* pgx.Connect to database n can succeed.
ConnectAccepted(d, n) == n \in DOMAIN d

\* ------------------------------------------------------------------ setup
\* setup returns (nil, err): no Container, nothing else is done.
SetupFail ==
    /\ spc' = "returned"
    /\ setupRet' = "err"

\* setupPostgresTestContainer
SetupContainer ==
    /\ spc = "container"
    /\ \E ok \in BOOLEAN :
        IF ok
        THEN /\ container' = "running"
             /\ dbs' = InitialDatabases
             /\ spc' = "port"
             /\ UNCHANGED setupRet
        ELSE /\ SetupFail
             /\ UNCHANGED <<container, dbs>>
    /\ UNCHANGED <<cfg, migrate, pool, held, stages, inflight, closeRet>>
    /\ UNCHANGED callerVars

\* db.MappedPort
SetupMappedPort ==
    /\ spc = "port"
    /\ \E ok \in BOOLEAN :
        IF ok
        THEN spc' = "pool" /\ UNCHANGED setupRet
        ELSE SetupFail
    /\ UNCHANGED <<cfg, migrate, container, pool, held, dbs, stages, inflight, closeRet>>
    /\ UNCHANGED callerVars

\* setupPgxPool
setupPgxPool ==
    /\ spc = "pool"
    /\ \E ok \in BOOLEAN :
        IF ok
        THEN /\ pool' = "open"
             /\ spc' = "migrations"
             /\ UNCHANGED setupRet
        ELSE /\ SetupFail
             /\ UNCHANGED pool
    /\ UNCHANGED <<cfg, migrate, container, held, dbs, stages, inflight, closeRet>>
    /\ UNCHANGED callerVars

\* runMigrations has not run, or a later stage has started.
NoMigrate == [newOk |-> FALSE, up |-> "none", sOk |-> FALSE, mOk |-> FALSE]

\* runMigrations' return value: nil (TRUE) or an error (FALSE).
\* newOk: migrate.New; up: m.Up()'s result; sOk, mOk: m.Close()'s two errors.
runMigrationsOkStrict(newOk, up, sOk, mOk) ==
    /\ newOk
    /\ up = "nil"
    /\ sOk
    /\ mOk
runMigrationsOk(newOk, up, sOk, mOk) ==
    /\ newOk
    /\ up \in {"nil", "ErrNoChange"}
    /\ sOk
    /\ mOk

\* if cfg.MigrationsPath != "" { runMigrations }
SetupMigrations ==
    /\ spc = "migrations"
    /\ IF cfg.MigrationsPath
       THEN \E newOk \in BOOLEAN, up \in {"nil", "ErrNoChange", "err"},
               sOk \in BOOLEAN, mOk \in BOOLEAN :
            /\ stages' = Append(stages, "migrations")
            /\ migrate' = [newOk |-> newOk, up |-> up, sOk |-> sOk, mOk |-> mOk]
            /\ dbs' = IF newOk /\ up \in {"nil", "ErrNoChange"}
                      THEN [dbs EXCEPT ![Database].schemaCurrent = TRUE]
                      ELSE dbs
            /\ IF runMigrationsOk(newOk, up, sOk, mOk)
               THEN spc' = "seedfiles" /\ UNCHANGED setupRet
               ELSE SetupFail
       ELSE /\ spc' = "seedfiles"
            /\ UNCHANGED <<setupRet, stages, dbs, migrate>>
    /\ UNCHANGED <<cfg, container, pool, held, inflight, closeRet>>
    /\ UNCHANGED callerVars

\* if cfg.SeedPath != "" { executeFiles }
SetupSeedFiles ==
    /\ spc = "seedfiles"
    /\ migrate' = NoMigrate
    /\ IF cfg.SeedPath
       THEN \E ok \in BOOLEAN :
            /\ stages' = Append(stages, "seedfiles")
            /\ IF ok
               THEN /\ dbs' = [dbs EXCEPT ![Database].seedFiles = TRUE]
                    /\ spc' = "seedfunc"
                    /\ UNCHANGED setupRet
               ELSE /\ SetupFail
                    /\ UNCHANGED dbs
       ELSE /\ spc' = "seedfunc"
            /\ UNCHANGED <<setupRet, stages, dbs>>
    /\ UNCHANGED <<cfg, container, pool, held, inflight, closeRet>>
    /\ UNCHANGED callerVars

\* if cfg.SeedFunc != nil { sql.Open; Ping; cfg.SeedFunc(db, connStr) }
SetupSeedFunc ==
    /\ spc = "seedfunc"
    /\ IF cfg.SeedFunc
       THEN \E ok \in BOOLEAN :
            /\ stages' = Append(stages, "seedfunc")
            /\ IF ok
               THEN /\ dbs' = [dbs EXCEPT ![Database].seedFunc = TRUE]
                    /\ spc' = "acquire"
                    /\ UNCHANGED setupRet
               ELSE /\ SetupFail
                    /\ UNCHANGED dbs
       ELSE /\ spc' = "acquire"
            /\ UNCHANGED <<setupRet, stages, dbs>>
    /\ UNCHANGED <<cfg, migrate, container, pool, held, inflight, closeRet>>
    /\ UNCHANGED callerVars

\* c, err := pool.Acquire(ctx); defer c.Release()
SetupAcquire ==
    /\ spc = "acquire"
    /\ \E ok \in BOOLEAN :
        IF ok
        THEN /\ PoolCanAcquire(held)
             /\ held' = PoolAcquire(held, SetupHolder)
             /\ spc' = "alter"
             /\ UNCHANGED setupRet
        ELSE /\ held' = PoolAcquireErr(held, SetupHolder)
             /\ SetupFail
    /\ UNCHANGED <<cfg, migrate, container, pool, dbs, stages, inflight, closeRet>>
    /\ UNCHANGED callerVars

\* c.Exec(ctx, "ALTER DATABASE <Database> is_template=true") is sent.
SetupAlter ==
    /\ spc = "alter"
    /\ inflight' = inflight \cup {[who |-> SetupHolder, op |-> "ALTER", target |-> Database]}
    /\ stages' = Append(stages, "template")
    /\ spc' = "altering"
    /\ UNCHANGED <<cfg, migrate, container, pool, held, dbs, setupRet, closeRet>>
    /\ UNCHANGED callerVars

\* What setup returns after the ALTER DATABASE statement: the Container when
\* the statement succeeded, else (nil, err).
AlterReturnOk(ok) == "ok"
AlterReturn(ok) == IF ok THEN "ok" ELSE "err"

\* The ALTER DATABASE statement completes; setup returns and the deferred
\* c.Release() runs.
SetupAlterDone ==
    /\ spc = "altering"
    /\ inflight' = {s \in inflight : s.who # SetupHolder}
    /\ held' = PoolRelease(held, SetupHolder)
    /\ spc' = "returned"
    /\ \E ok \in BOOLEAN :
        /\ dbs' = IF ok THEN [dbs EXCEPT ![Database].is_template = TRUE] ELSE dbs
        /\ setupRet' = AlterReturn(ok)
    /\ UNCHANGED <<cfg, migrate, container, pool, stages, closeRet>>
    /\ UNCHANGED callerVars

\* ------------------------------------------------------------- NewInstance
\* strings.ReplaceAll(s, old, "") on a string of tokens.
RECURSIVE ReplaceAll(_, _)
ReplaceAll(s, old) ==
    IF s = <<>> THEN <<>>
    ELSE IF Head(s) = old THEN ReplaceAll(Tail(s), old)
    ELSE <<Head(s)>> \o ReplaceAll(Tail(s), old)

\* The values uuid.NewString can return: groups separated by "-".
UuidStrings == {<<a, "-", b>> : a \in HexDigits, b \in HexDigits}

\* uuid.NewString(): a value it has not returned before (used: those returned
\* so far). The code only strips the dashes of the value and appends it to
\* the name, so the fresh values are taken in a fixed order.
NewString(used) == CHOOSE u \in UuidStrings \ used : TRUE

\* name := c.cfg.Database + "_" + strings.ReplaceAll(uuid.NewString(), "-", "")
InstanceNameNoSuffix(u) == Database \o <<"_">>
InstanceName(u) == Database \o <<"_">> \o ReplaceAll(u, "-")

\* The statements of NewInstance and CloseInstance.
CreateStatement(p, n) == [who |-> p, op |-> "CREATE", target |-> n, template |-> Database]
DropTargetTemplate(d) == Database
DropTargetAnother(d) ==
    IF DOMAIN dbs \ {Database, AdminDatabase, d.Name} = {}
    THEN d.Name
    ELSE CHOOSE n \in DOMAIN dbs \ {Database, AdminDatabase, d.Name} : TRUE
DropTarget(d) == d.Name
DropStatement(p, d) == [who |-> p, op |-> "DROP", target |-> DropTarget(d), template |-> <<>>]

\* The text a call puts in front of the error it returns (fmt.Errorf("...: %w",
\* err)); "" when it returns the error as it got it, or nil.
WrapCloseRaw(op, err) ==
    CASE op = "NewInstance" /\ err \in {"ctx", "pool"} -> "failed to acquire connection"
      [] op = "NewInstance" /\ err = "create" -> "failed to create database from template"
      [] OTHER -> ""
WrapCreateRaw(op, err) ==
    CASE op = "NewInstance" /\ err \in {"ctx", "pool"} -> "failed to acquire connection"
      [] op = "CloseInstance" /\ err = "close" -> "failed to close database connection"
      [] OTHER -> ""
Wrap(op, err) ==
    CASE op = "NewInstance" /\ err \in {"ctx", "pool"} -> "failed to acquire connection"
      [] op = "NewInstance" /\ err = "create" -> "failed to create database from template"
      [] op = "CloseInstance" /\ err = "close" -> "failed to close database connection"
      [] OTHER -> ""

\* What a call returns (inst, err), with what it did: closeErr: Connection.Close
\* returned an error; dropTried: DROP DATABASE was sent. err is the error the
\* call got from the step that failed, msg the text the call put in front of it.
Return(op, inst, err, closeErr, dropTried) ==
    [op |-> op, inst |-> inst, err |-> err, msg |-> Wrap(op, err),
     closeErr |-> closeErr, dropTried |-> dropTried]

NoReturn == Return("none", NilInstance, "nil", FALSE, FALSE)

\* A caller is inside NewInstance or CloseInstance.
InCall(p) == pc[p] \in {"ni_acquire", "ni_exec", "ni_creating", "ni_connect",
                        "ci_acquire", "ci_exec", "ci_dropping"}

\* The Container is usable: setup returned it and Close was not called.
Ready == setupRet = "ok" /\ closeRet = "none"

\* A test calls c.NewInstance(ctx). The number of calls is capped here, where
\* a call starts, so that a call once started is never held up by the cap.
NewInstanceCall(p) ==
    /\ Ready
    /\ pc[p] = "idle"
    /\ Cardinality(uuids) + Cardinality({q \in Callers : pc[q] \in {"ni_acquire", "ni_exec"}}) < MaxNames
    /\ pc' = [pc EXCEPT ![p] = "ni_acquire"]
    /\ UNCHANGED <<ctxDone, name, di, ret, issued, uuids, created, released, closeFailed>>
    /\ UNCHANGED <<held, dbs, inflight>>
    /\ UNCHANGED setupVars

\* The caller's context is cancelled (or its deadline passes) while the call
\* waits in pool.Acquire.
CtxCancel(p) ==
    /\ pc[p] \in {"ni_acquire", "ci_acquire"}
    /\ ~ctxDone[p]
    /\ ctxDone' = [ctxDone EXCEPT ![p] = TRUE]
    /\ UNCHANGED <<pc, name, di, ret, issued, uuids, created, released, closeFailed>>
    /\ UNCHANGED <<held, dbs, inflight>>
    /\ UNCHANGED setupVars

\* conn, err := c.pool.Acquire(ctx) returns a connection; defer conn.Release()
NewInstanceAcquire(p) ==
    /\ pc[p] = "ni_acquire"
    /\ ~ctxDone[p]
    /\ PoolCanAcquire(held)
    /\ held' = PoolAcquire(held, p)
    /\ pc' = [pc EXCEPT ![p] = "ni_exec"]
    /\ UNCHANGED <<ctxDone, name, di, ret, issued, uuids, created, released, closeFailed>>
    /\ UNCHANGED <<dbs, inflight>>
    /\ UNCHANGED setupVars

\* NewInstanceAcquireErr without its return: the clone is made all the same
\* before the error is returned.
NewInstanceAcquireErrFallThrough(p) ==
    /\ pc[p] = "ni_acquire"
    /\ ctxDone[p]
    /\ uuids # UuidStrings
    /\ LET n == InstanceName(NewString(uuids)) IN
        /\ uuids' = uuids \cup {NewString(uuids)}
        /\ issued' = [issued EXCEPT ![p] = @ \cup {CreateStatement(p, n)}]
        /\ dbs' = IF CreateAccepted(dbs, n, Database) THEN CreateDatabase(dbs, n, Database) ELSE dbs
        /\ created' = created \cup {n}
    /\ ret' = [ret EXCEPT ![p] = Return("NewInstance", NilInstance, "ctx", FALSE, FALSE)]
    /\ pc' = [pc EXCEPT ![p] = "ni_returned"]
    /\ ctxDone' = [ctxDone EXCEPT ![p] = FALSE]
    /\ UNCHANGED <<name, di, released, closeFailed>>
    /\ UNCHANGED <<held, inflight>>
    /\ UNCHANGED setupVars

\* c.pool.Acquire(ctx) returns an error (ctx ended while waiting, or the pool
\* could not connect): return nil, "failed to acquire connection".
NewInstanceAcquireErr(p) ==
    /\ pc[p] = "ni_acquire"
    /\ \E cause \in {"ctx", "pool"} :
        /\ cause = "ctx" => ctxDone[p]
        /\ cause = "pool" => ~ctxDone[p]
        /\ ret' = [ret EXCEPT ![p] = Return("NewInstance", NilInstance, cause, FALSE, FALSE)]
    /\ held' = PoolAcquireErr(held, p)
    /\ pc' = [pc EXCEPT ![p] = "ni_returned"]
    /\ ctxDone' = [ctxDone EXCEPT ![p] = FALSE]
    /\ UNCHANGED <<name, di, issued, uuids, created, released, closeFailed>>
    /\ UNCHANGED <<dbs, inflight>>
    /\ UNCHANGED setupVars

\* name := ...; conn.Exec(ctx, "CREATE DATABASE name TEMPLATE Database") is sent.
NewInstanceExec(p) ==
    /\ pc[p] = "ni_exec"
    /\ Cardinality(uuids) < MaxNames
    /\ uuids # UuidStrings
    /\ LET u == NewString(uuids) IN
        /\ uuids' = uuids \cup {u}
        /\ name' = [name EXCEPT ![p] = InstanceName(u)]
        /\ inflight' = inflight \cup {CreateStatement(p, InstanceName(u))}
        /\ issued' = [issued EXCEPT ![p] = @ \cup {CreateStatement(p, InstanceName(u))}]
    /\ pc' = [pc EXCEPT ![p] = "ni_creating"]
    /\ UNCHANGED <<ctxDone, di, ret, created, released, closeFailed>>
    /\ UNCHANGED <<held, dbs>>
    /\ UNCHANGED setupVars

\* Who holds the pool's connection once CREATE DATABASE has succeeded: conn is
\* released by the deferred conn.Release() only, so p still holds it while it
\* goes on to pgx.Connect.
HeldAfterCreateReleased(h, p) == h \ {p}
HeldAfterCreate(h, p) == h

\* The CREATE DATABASE statement completes. On an error NewInstance returns
\* nil, "failed to create database from template" and the deferred
\* conn.Release() runs.
NewInstanceCreateDone(p) ==
    /\ pc[p] = "ni_creating"
    /\ inflight' = {s \in inflight : s.who # p}
    /\ \E fault \in BOOLEAN :
        IF ~fault /\ CreateAccepted(dbs, name[p], Database)
        THEN /\ dbs' = CreateDatabase(dbs, name[p], Database)
             /\ created' = created \cup {name[p]}
             /\ pc' = [pc EXCEPT ![p] = "ni_connect"]
             /\ held' = HeldAfterCreate(held, p)
             /\ UNCHANGED <<ret, name>>
        ELSE /\ ret' = [ret EXCEPT ![p] =
                    Return("NewInstance", NilInstance, "create", FALSE, FALSE)]
             /\ held' = PoolRelease(held, p)
             /\ pc' = [pc EXCEPT ![p] = "ni_returned"]
             /\ name' = [name EXCEPT ![p] = <<>>]
             /\ UNCHANGED <<dbs, created>>
    /\ UNCHANGED <<ctxDone, di, issued, uuids, released, closeFailed>>
    /\ UNCHANGED setupVars

\* What NewInstance returns when pgx.Connect fails: return nil, err
ConnectErrReturnInstance(n) == Return("NewInstance", [Name |-> n, Connection |-> "closed"], "connect", FALSE, FALSE)
ConnectErrReturn(n) == Return("NewInstance", NilInstance, "connect", FALSE, FALSE)

\* instanceConn, err := pgx.Connect(ctx, ".../name"); NewInstance returns and
\* the deferred conn.Release() runs.
NewInstanceConnect(p) ==
    /\ pc[p] = "ni_connect"
    /\ held' = PoolRelease(held, p)
    /\ \E fault \in BOOLEAN :
        IF ~fault /\ ConnectAccepted(dbs, name[p])
        THEN /\ di' = [di EXCEPT ![p] = [Name |-> name[p], Connection |-> "open"]]
             /\ ret' = [ret EXCEPT ![p] =
                    Return("NewInstance", [Name |-> name[p], Connection |-> "open"],
                           "nil", FALSE, FALSE)]
        ELSE /\ ret' = [ret EXCEPT ![p] = ConnectErrReturn(name[p])]
             /\ UNCHANGED di
    /\ pc' = [pc EXCEPT ![p] = "ni_returned"]
    /\ name' = [name EXCEPT ![p] = <<>>]
    /\ UNCHANGED <<ctxDone, issued, uuids, created, released, closeFailed>>
    /\ UNCHANGED <<dbs, inflight>>
    /\ UNCHANGED setupVars

\* The test takes what the call returned (db, err := c.NewInstance(ctx);
\* err := c.CloseInstance(ctx, db)) and goes on.
TestContinues(p) ==
    /\ pc[p] \in {"ni_returned", "ci_returned"}
    /\ pc' = [pc EXCEPT ![p] = IF di[p] = NilInstance THEN "idle" ELSE "have"]
    /\ ret' = [ret EXCEPT ![p] = NoReturn]
    /\ issued' = [issued EXCEPT ![p] = {}]
    /\ UNCHANGED <<ctxDone, name, di, uuids, created, released, closeFailed>>
    /\ UNCHANGED <<held, dbs, inflight>>
    /\ UNCHANGED setupVars

\* ----------------------------------------------------------- CloseInstance
\* Where CloseInstance goes after err := di.Connection.Close(ctx):
\* if err != nil { return fmt.Errorf("failed to close database connection") }
AfterCloseContinue(closeOk) == "ci_acquire"
AfterClose(closeOk) == IF closeOk THEN "ci_acquire" ELSE "ci_returned"

\* The instance after di.Connection.Close(ctx): the connection is closed,
\* whether or not Close returned an error, and stays closed when closed again.
CloseConnectionNoop(d) == d
CloseConnection(d) == [d EXCEPT !.Connection = "closed"]

\* A test calls c.CloseInstance(ctx, di) on the instance it owns:
\* err := di.Connection.Close(ctx)
CloseInstanceCall(p) ==
    /\ Ready
    /\ pc[p] = "have"
    /\ \E closeOk \in BOOLEAN :
        /\ di[p].Connection = "closed" => closeOk
        /\ closeFailed' = [closeFailed EXCEPT ![p] = ~closeOk]
        /\ pc' = [pc EXCEPT ![p] = AfterClose(closeOk)]
        /\ ret' = [ret EXCEPT ![p] =
              IF AfterClose(closeOk) = "ci_returned"
              THEN Return("CloseInstance", NilInstance, "close", ~closeOk, FALSE)
              ELSE NoReturn]
    /\ di' = [di EXCEPT ![p] = CloseConnection(di[p])]
    /\ UNCHANGED <<ctxDone, name, issued, uuids, created, released>>
    /\ UNCHANGED <<held, dbs, inflight>>
    /\ UNCHANGED setupVars

\* conn, err := c.pool.Acquire(ctx) returns a connection; defer conn.Release()
CloseInstanceAcquire(p) ==
    /\ pc[p] = "ci_acquire"
    /\ ~ctxDone[p]
    /\ PoolCanAcquire(held)
    /\ held' = PoolAcquire(held, p)
    /\ pc' = [pc EXCEPT ![p] = "ci_exec"]
    /\ UNCHANGED <<ctxDone, name, di, ret, issued, uuids, created, released,
                   closeFailed>>
    /\ UNCHANGED <<dbs, inflight>>
    /\ UNCHANGED setupVars

\* c.pool.Acquire(ctx) returns an error: return err
CloseInstanceAcquireErr(p) ==
    /\ pc[p] = "ci_acquire"
    /\ \E cause \in {"ctx", "pool"} :
        /\ cause = "ctx" => ctxDone[p]
        /\ cause = "pool" => ~ctxDone[p]
        /\ ret' = [ret EXCEPT ![p] =
              Return("CloseInstance", NilInstance, cause, closeFailed[p], FALSE)]
    /\ held' = PoolAcquireErr(held, p)
    /\ pc' = [pc EXCEPT ![p] = "ci_returned"]
    /\ ctxDone' = [ctxDone EXCEPT ![p] = FALSE]
    /\ closeFailed' = [closeFailed EXCEPT ![p] = FALSE]
    /\ UNCHANGED <<name, di, issued, uuids, created, released>>
    /\ UNCHANGED <<dbs, inflight>>
    /\ UNCHANGED setupVars

\* conn.Exec(ctx, "DROP DATABASE di.Name WITH (FORCE)") is sent.
CloseInstanceExec(p) ==
    /\ pc[p] = "ci_exec"
    /\ inflight' = inflight \cup {DropStatement(p, di[p])}
    /\ issued' = [issued EXCEPT ![p] = @ \cup {DropStatement(p, di[p])}]
    /\ pc' = [pc EXCEPT ![p] = "ci_dropping"]
    /\ UNCHANGED <<ctxDone, name, di, ret, uuids, created, released, closeFailed>>
    /\ UNCHANGED <<held, dbs>>
    /\ UNCHANGED setupVars

\* _, err = conn.Exec(...); return err
DropReturnNil(ok) == "nil"
DropReturnErr(ok) == "drop"
DropReturn(ok) == IF ok THEN "nil" ELSE "drop"

\* The DROP DATABASE statement completes; CloseInstance returns its error and
\* the deferred conn.Release() runs.
CloseInstanceDropDone(p) ==
    /\ pc[p] = "ci_dropping"
    /\ inflight' = {s \in inflight : s.who # p}
    /\ held' = PoolRelease(held, p)
    /\ \E fault \in BOOLEAN :
        LET target == DropTarget(di[p])
            ok == ~fault /\ DropAccepted(dbs, target)
        IN /\ dbs' = IF ok THEN DropDatabase(dbs, target) ELSE dbs
           /\ ret' = [ret EXCEPT ![p] =
                 Return("CloseInstance", NilInstance, DropReturn(ok), closeFailed[p], TRUE)]
           /\ released' = IF DropReturn(ok) = "nil"
                          THEN released \cup {di[p].Name}
                          ELSE released
    /\ pc' = [pc EXCEPT ![p] = "ci_returned"]
    /\ closeFailed' = [closeFailed EXCEPT ![p] = FALSE]
    /\ UNCHANGED <<ctxDone, name, di, issued, uuids, created>>
    /\ UNCHANGED setupVars

\* The test ends: it no longer refers to the instance it closed.
Forget(p) ==
    /\ pc[p] = "have"
    /\ di[p].Connection = "closed"
    /\ di' = [di EXCEPT ![p] = NilInstance]
    /\ ret' = [ret EXCEPT ![p] = NoReturn]
    /\ pc' = [pc EXCEPT ![p] = "idle"]
    /\ UNCHANGED <<ctxDone, name, issued, uuids, created, released, closeFailed>>
    /\ UNCHANGED <<held, dbs, inflight>>
    /\ UNCHANGED setupVars

\* ---------------------------------------------------------- Container.Close
\* return c.container.Terminate(context.Background())
ContainerClose ==
    /\ Ready
    /\ \A p \in Callers : ~InCall(p)
    /\ \E ok \in BOOLEAN :
        /\ container' = IF ok THEN "terminated" ELSE container
        /\ closeRet' = IF ok THEN "nil" ELSE "err"
    /\ UNCHANGED <<cfg, migrate, spc, pool, setupRet, stages>>
    /\ UNCHANGED <<held, dbs, inflight>>
    /\ UNCHANGED callerVars

\* ------------------------------------------------------------ specification
\* The configurations: which of MigrationsPath, SeedPath and SeedFunc are set.
Configs == [MigrationsPath : BOOLEAN, SeedPath : BOOLEAN, SeedFunc : BOOLEAN]

\* NewContainer(cfg) is called: setup(context.Background(), cfg) starts.
InitWith(c) ==
    /\ cfg = c
    /\ spc = "container"
    /\ container = "none"
    /\ pool = "none"
    /\ held = {}
    /\ dbs = <<>>
    /\ setupRet = "none"
    /\ stages = <<>>
    /\ migrate = NoMigrate
    /\ pc = [p \in Callers |-> "idle"]
    /\ ctxDone = [p \in Callers |-> FALSE]
    /\ name = [p \in Callers |-> <<>>]
    /\ di = [p \in Callers |-> NilInstance]
    /\ ret = [p \in Callers |-> NoReturn]
    /\ inflight = {}
    /\ issued = [p \in Callers |-> {}]
    /\ uuids = {}
    /\ created = {}
    /\ released = {}
    /\ closeFailed = [p \in Callers |-> FALSE]
    /\ closeRet = "none"

\* Every configuration, for setup on its own.
InitSetup == \E c \in Configs : InitWith(c)

\* NewInstance and CloseInstance never read MigrationsPath, SeedPath or
\* SeedFunc: the tests run on the Container of the README's configuration
\* (none of them set) and of the one with all of them set.
Init == \E c \in Configs : c.SeedPath = c.MigrationsPath /\ c.SeedFunc = c.MigrationsPath
                           /\ InitWith(c)

\* NewContainer alone: setup's steps, then Container.Close.
NextSetup ==
    \/ SetupContainer
    \/ SetupMappedPort
    \/ setupPgxPool
    \/ SetupMigrations
    \/ SetupSeedFiles
    \/ SetupSeedFunc
    \/ SetupAcquire
    \/ SetupAlter
    \/ SetupAlterDone
    \/ ContainerClose

SpecSetup == InitSetup /\ [][NextSetup]_vars

Next ==
    \/ SetupContainer
    \/ SetupMappedPort
    \/ setupPgxPool
    \/ SetupMigrations
    \/ SetupSeedFiles
    \/ SetupSeedFunc
    \/ SetupAcquire
    \/ SetupAlter
    \/ SetupAlterDone
    \/ ContainerClose
    \/ \E p \in Callers : NewInstanceCall(p)
    \/ \E p \in Callers : CtxCancel(p)
    \/ \E p \in Callers : NewInstanceAcquire(p)
    \/ \E p \in Callers : NewInstanceAcquireErr(p)
    \/ \E p \in Callers : NewInstanceExec(p)
    \/ \E p \in Callers : NewInstanceCreateDone(p)
    \/ \E p \in Callers : NewInstanceConnect(p)
    \/ \E p \in Callers : TestContinues(p)
    \/ \E p \in Callers : CloseInstanceCall(p)
    \/ \E p \in Callers : CloseInstanceAcquire(p)
    \/ \E p \in Callers : CloseInstanceAcquireErr(p)
    \/ \E p \in Callers : CloseInstanceExec(p)
    \/ \E p \in Callers : CloseInstanceDropDone(p)
    \/ \E p \in Callers : Forget(p)

Spec == Init /\ [][Next]_vars

\* Scheduling for the progress properties. A statement sent to the server
\* completes and a call that holds a connection runs on to its return (weak
\* fairness on the steps inside a call); pool.Acquire returns once its context
\* has ended (weak fairness); a caller waiting in pool.Acquire is handed the
\* connection at one of the moments it is free (strong fairness: the pool
\* queues its waiters). Nothing obliges a test to start a call, the context to
\* be cancelled, or the pool to fail.
Fairness ==
    \A p \in Callers :
        /\ SF_vars(NewInstanceAcquire(p))
        /\ SF_vars(CloseInstanceAcquire(p))
        /\ WF_vars(ctxDone[p] /\ NewInstanceAcquireErr(p))
        /\ WF_vars(ctxDone[p] /\ CloseInstanceAcquireErr(p))
        /\ WF_vars(NewInstanceExec(p))
        /\ WF_vars(NewInstanceCreateDone(p))
        /\ WF_vars(NewInstanceConnect(p))
        /\ WF_vars(CloseInstanceExec(p))
        /\ WF_vars(CloseInstanceDropDone(p))

SpecFair == Init /\ [][Next]_vars /\ Fairness

\* ------------------------------------------------------------------ claims
\* A caller is between a successful pool.Acquire and its deferred Release.
Holding(p) == pc[p] \in {"ni_exec", "ni_creating", "ni_connect", "ci_exec", "ci_dropping"}

\* A call of the caller has just returned.
Returned(p) == pc[p] \in {"ni_returned", "ci_returned"}

\* The template's contents when setup returned the Container.
TemplateAfterSetup ==
    [schemaCurrent |-> cfg.MigrationsPath, seedFiles |-> cfg.SeedPath,
     seedFunc |-> cfg.SeedFunc, is_template |-> TRUE]

\* C1: in every reachable state at most one administrative statement (CREATE
\* DATABASE ... TEMPLATE or DROP DATABASE ... WITH (FORCE)) is in flight
\* against the server, and whoever has one in flight holds the single
\* connection of the pool.
C1_OneAdminStatement ==
    /\ Cardinality(inflight) <= 1
    /\ Cardinality(held) <= 1
    /\ \A s \in inflight : s.who \in held

\* C1's case: a CREATE DATABASE is in flight while another caller waits for
\* the pool's connection.
C1_Witness ==
    \E p, q \in Callers :
        /\ pc[p] = "ni_creating"
        /\ pc[q] \in {"ni_acquire", "ci_acquire"}
        /\ inflight # {}

\* C2: a call that obtained the pool's connection gives it back before it
\* returns, on every return path; whenever no call is in progress (and setup
\* has returned) the connection is free.
C2_SlotGivenBack ==
    /\ \A p \in Callers : ~Holding(p) => p \notin held
    /\ (spc = "returned" /\ \A p \in Callers : ~InCall(p)) => held = {}

\* C2's case: one call returned after a failed clone, another after a failed
\* drop, and the connection is free.
C2_Witness ==
    \E p, q \in Callers :
        /\ pc[p] = "ni_returned" /\ ret[p].err = "create"
        /\ pc[q] = "ci_returned" /\ ret[q].err = "drop"
        /\ held = {}

C4_ServerTerminatedOnSetupFailure ==
    setupRet = "err" => container # "running"

\* C5: a call whose context ended while it waited for the pool's connection
\* returns a failure without having sent any CREATE DATABASE or DROP DATABASE
\* statement: it returns no instance, generated no name and the server's
\* databases are not touched by it.
C5_CancelledWaitIssuesNothing ==
    \A p \in Callers :
        (Returned(p) /\ ret[p].err = "ctx") =>
            /\ issued[p] = {}
            /\ ~ret[p].dropTried
            /\ ret[p].inst = NilInstance
            /\ name[p] = <<>>
            /\ \A s \in inflight : s.who # p

\* C5's case: a NewInstance call returned with the context's error while
\* another caller held the pool's connection.
C5_Witness ==
    \E p, q \in Callers :
        /\ pc[p] = "ni_returned" /\ ret[p].err = "ctx"
        /\ q \in held

\* C6: the cancellation of a NewInstance call that waits for the pool's
\* connection, and the return of that call, leave everything else as it is:
\* the cancelled call does not take the connection, the holder and its
\* statement are undisturbed and every other caller is where it was.
C6_CancelAffectsNoOther ==
    [][\A p \in Callers :
          (/\ pc[p] = "ni_acquire"
           /\ \/ (~ctxDone[p] /\ ctxDone'[p])
              \/ (pc'[p] = "ni_returned" /\ ret'[p].err = "ctx"))
          => /\ held' = held
             /\ p \notin held'
             /\ inflight' = inflight
             /\ dbs' = dbs
             /\ \A q \in Callers \ {p} :
                  /\ pc'[q] = pc[q]
                  /\ di'[q] = di[q]
                  /\ ctxDone'[q] = ctxDone[q]
                  /\ ret'[q] = ret[q]]_vars

\* C6's case: after a cancelled NewInstance call returned, another caller that
\* waited obtained the connection and has its CREATE DATABASE in flight.
C6_Witness ==
    \E p, q \in Callers :
        /\ pc[p] = "ni_returned" /\ ret[p].err = "ctx"
        /\ pc[q] = "ni_creating"
        /\ q \in held

\* C7: NewInstance returns either an error and no instance, or no error and an
\* instance whose database was cloned from the template and exists on the
\* server and whose connection is open.
C7_InstanceOrFailure ==
    \A p \in Callers :
        pc[p] = "ni_returned" =>
            IF ret[p].err = "nil"
            THEN /\ ret[p].inst # NilInstance
                 /\ ret[p].inst = di[p]
                 /\ ret[p].inst.Connection = "open"
                 /\ ret[p].inst.Name \in created
                 /\ ret[p].inst.Name \in DOMAIN dbs
                 /\ dbs[ret[p].inst.Name] = [dbs[Database] EXCEPT !.is_template = FALSE]
            ELSE /\ ret[p].inst = NilInstance
                 /\ di[p] = NilInstance
                 /\ ret[p].err \in {"ctx", "pool", "create", "connect"}

\* C7's case: one NewInstance call returned a connect failure, another an
\* instance.
C7_Witness ==
    \E p, q \in Callers :
        /\ pc[p] = "ni_returned" /\ ret[p].err = "connect"
        /\ pc[q] = "ni_returned" /\ ret[q].err = "nil"

\* A name is the template's name, "_", and a non-empty suffix without dashes.
WellFormedName(n) ==
    /\ Len(n) > Len(Database) + 1
    /\ SubSeq(n, 1, Len(Database) + 1) = Database \o <<"_">>
    /\ \A i \in (Len(Database) + 2)..Len(n) : n[i] \in HexDigits

\* C8: the names of concurrent NewInstance calls are pairwise distinct and
\* distinct from every name created before, each the template's name, "_" and
\* a fresh suffix; so the server, unless it fails, accepts every clone and
\* every connect and the calls succeed.
C8_DistinctNames ==
    /\ \A p \in Callers : name[p] # <<>> => WellFormedName(name[p])
    /\ \A p, q \in Callers : (p # q /\ name[p] # <<>>) => name[p] # name[q]
    /\ \A p, q \in Callers : (p # q /\ di[p] # NilInstance) => di[p].Name # di[q].Name
    /\ \A p, q \in Callers : di[q] # NilInstance => name[p] # di[q].Name
    /\ \A p \in Callers :
          pc[p] = "ni_creating" =>
              (name[p] \notin created /\ CreateAccepted(dbs, name[p], Database))
    /\ \A p \in Callers : pc[p] = "ni_connect" => ConnectAccepted(dbs, name[p])

\* C8's case: two callers own an instance with an open connection at the same
\* time.
C8_Witness ==
    \E p, q \in Callers :
        /\ p # q
        /\ di[p] # NilInstance /\ di[p].Connection = "open"
        /\ di[q] # NilInstance /\ di[q].Connection = "open"

\* C9: once setup has marked the template, the template database exists with
\* the contents and the mark setup gave it, and no statement of NewInstance or
\* CloseInstance has it as its target: every DROP DATABASE and every CREATE
\* DATABASE names another database.
C9_TemplateUntouched ==
    setupRet = "ok" =>
        /\ Database \in DOMAIN dbs
        /\ dbs[Database] = TemplateAfterSetup
        /\ \A s \in inflight : s.target # Database
        /\ \A p \in Callers : \A s \in issued[p] :
              /\ s.target # Database
              /\ s.op = "CREATE" => s.template = Database

\* C9's case: a DROP DATABASE is in flight after an earlier instance was
\* cloned and dropped.
C9_Witness ==
    /\ setupRet = "ok"
    /\ released # {}
    /\ \E s \in inflight : s.op = "DROP"

\* C10: when CloseInstance returns nil, the instance's connection is closed
\* and its database no longer exists on the server, so that a connect to that
\* name is refused, then and later.
C10_ReleasedIsGone ==
    /\ \A p \in Callers :
          (pc[p] = "ci_returned" /\ ret[p].err = "nil") =>
              /\ di[p].Connection = "closed"
              /\ di[p].Name \notin DOMAIN dbs
              /\ ~ConnectAccepted(dbs, di[p].Name)
              /\ di[p].Name \in released
    /\ \A n \in released : ~ConnectAccepted(dbs, n)

\* C10's case: CloseInstance returned nil.
C10_Witness ==
    \E p \in Callers : pc[p] = "ci_returned" /\ ret[p].err = "nil"

\* C11: a step of a NewInstance or CloseInstance call of one caller, whether
\* the call succeeds or fails, leaves the instance of every other caller as it
\* is (its name, its connection, its database and the database's contents),
\* and leaves the template database as it is.
C11_OtherInstancesUnchanged ==
    [][\A p \in Callers :
          (setupRet = "ok" /\ pc'[p] = pc[p]) =>
              /\ di'[p] = di[p]
              /\ (di[p] # NilInstance /\ di[p].Name \in DOMAIN dbs) =>
                    (di[p].Name \in DOMAIN dbs' /\ dbs'[di[p].Name] = dbs[di[p].Name])
              /\ dbs'[Database] = dbs[Database]]_vars

\* C11's case: one caller's CloseInstance returned nil while another caller's
\* instance is active, its database on the server and its connection open.
C11_Witness ==
    \E p, q \in Callers :
        /\ p # q
        /\ pc[p] = "ci_returned" /\ ret[p].err = "nil"
        /\ di[q].Connection = "open"
        /\ di[q].Name \in DOMAIN dbs

\* A call of the caller waits in pool.Acquire.
Waiting(p) == pc[p] \in {"ni_acquire", "ci_acquire"}

\* The caller's pool.Acquire returned an error: its context ended while it
\* waited, or the pool could not connect.
AcquireFailed(p) == Returned(p) /\ ret[p].err \in {"ctx", "pool"}

\* C12: under fair scheduling every call that waits for the gate eventually
\* holds it, unless its pool.Acquire fails (context cancelled, pool failure),
\* and every call that has started eventually returns: no caller waits for
\* ever and the gate is always given back.
C12_WaitersProceed ==
    \A p \in Callers :
        /\ Waiting(p) ~> (Holding(p) \/ AcquireFailed(p))
        /\ InCall(p) ~> Returned(p)

\* C12's case: a caller waits for the gate, its context not cancelled, while
\* another caller holds the gate with its DROP DATABASE in flight.
C12_Witness ==
    \E p, q \in Callers :
        /\ p # q
        /\ pc[p] = "ci_dropping"
        /\ Waiting(q) /\ ~ctxDone[q]

\* The stages setup runs for a configuration, in the order it runs them.
StagesOf(c) ==
    (IF c.MigrationsPath THEN <<"migrations">> ELSE <<>>) \o
    (IF c.SeedPath THEN <<"seedfiles">> ELSE <<>>) \o
    (IF c.SeedFunc THEN <<"seedfunc">> ELSE <<>>) \o
    <<"template">>

\* C13: setup returns a Container only after the ALTER DATABASE ...
\* is_template statement succeeded, with every configured stage run once; a
\* caller starts a call, and a CREATE DATABASE ... TEMPLATE is sent, only after
\* that; and once setup has returned the Container no step runs a stage again
\* or changes the template.
C13_TemplatePreparedOnceBeforeClones ==
    /\ [](setupRet = "ok" => (dbs[Database].is_template /\ stages = StagesOf(cfg)))
    /\ [](\A p \in Callers :
            (pc[p] # "idle" \/ issued[p] # {} \/ di[p] # NilInstance) => setupRet = "ok")
    /\ [](\A s \in inflight : s.op = "CREATE" => dbs[Database].is_template)
    /\ [](created # {} => dbs[Database].is_template)
    /\ [][setupRet = "ok" =>
            /\ stages' = stages
            /\ dbs'[Database] = dbs[Database]
            /\ \A s \in inflight' : s.op # "ALTER"]_vars

\* C13's case: setup has returned the Container, one clone exists and the
\* CREATE DATABASE ... TEMPLATE of another call is in flight.
C13_Witness ==
    /\ setupRet = "ok"
    /\ created # {}
    /\ \E s \in inflight : s.op = "CREATE"

\* C14: after Container.Close has returned nil, neither the server container
\* nor the connection pool remains open.
C14_CloseTerminatesBoth ==
    closeRet = "nil" => (container # "running" /\ pool # "open")

\* What the caller sees of a returned error: the error of the failed step and
\* the text put in front of it.
Visible(r) == <<r.err, r.msg>>

C16_ConnectFailureLeavesOrphan ==
    \A p \in Callers :
        (pc[p] = "ni_returned" /\ ret[p].err = "connect") =>
            /\ ret[p].inst = NilInstance
            /\ \A q \in Callers :
                  (pc[q] = "ni_returned" /\ ret[q].err \in {"create", "ctx", "pool"})
                  => Visible(ret[q]) # Visible(ret[p]) /\ ret[q].msg # ret[p].msg
            /\ \E s \in issued[p] :
                  /\ s.op = "CREATE"
                  /\ s.target \in DOMAIN dbs
                  /\ s.target \in created
                  /\ \A q \in Callers : di[q].Name # s.target
            /\ p \notin held

\* C16's case: one NewInstance returned the error of pgx.Connect, its database
\* on the server, while another returned the error of its CREATE DATABASE.
C16_Witness ==
    \E p, q \in Callers :
        /\ pc[p] = "ni_returned" /\ ret[p].err = "connect"
        /\ pc[q] = "ni_returned" /\ ret[q].err = "create"
        /\ \E s \in issued[p] : s.target \in DOMAIN dbs

\* runMigrations found nothing to apply (m.Up() returned ErrNoChange) and
\* nothing else in it failed.
MigrationNoChange ==
    migrate.newOk /\ migrate.up = "ErrNoChange" /\ migrate.sOk /\ migrate.mOk

\* C17: setup runs the configured stages in the order migrations, seed files,
\* seed callback, and marks the database as template last; after a failure no
\* stage runs and the database is not marked; the database is marked only
\* after every configured stage did its work; and a migration that found
\* nothing to apply does not fail setup: the next stage is reached.
C17_StagesInOrder ==
    /\ [](\E k \in 0..Len(StagesOf(cfg)) : stages = SubSeq(StagesOf(cfg), 1, k))
    /\ [](setupRet = "err" => (Database \in DOMAIN dbs => ~dbs[Database].is_template))
    /\ []((Database \in DOMAIN dbs /\ dbs[Database].is_template) =>
              (stages = StagesOf(cfg) /\ dbs[Database] = TemplateAfterSetup))
    /\ [](migrate.up = "err" => setupRet = "err")
    /\ [](MigrationNoChange => (spc = "seedfiles" /\ setupRet = "none"
                                   /\ dbs[Database].schemaCurrent))
    /\ [][setupRet = "err" => (stages' = stages /\ dbs' = dbs)]_vars

\* C17's case: the migrations found nothing to apply and setup stands before
\* the seed files, which are configured.
C17_Witness ==
    /\ MigrationNoChange
    /\ spc = "seedfiles"
    /\ cfg.SeedPath

\* C18: from the moment CloseInstance has been started on an instance its
\* connection is closed; an instance whose connection is closed never has an
\* open connection again, whatever is called on it, a repeated CloseInstance
\* included; and no instance whose database was dropped has an open connection.
C18_NeverActiveAgain ==
    /\ [](\A p \in Callers :
            pc[p] \in {"ci_acquire", "ci_exec", "ci_dropping", "ci_returned"}
            => di[p].Connection = "closed")
    /\ [](\A p \in Callers : di[p].Name \in released => di[p].Connection = "closed")
    /\ [][\A p \in Callers :
            di[p].Connection = "closed" =>
                (di'[p].Connection # "open" \/ di'[p].Name # di[p].Name)]_vars

\* C18's case: CloseInstance was called again on an instance whose database
\* had been dropped, and returned the error of its DROP DATABASE.
C18_Witness ==
    \E p \in Callers :
        /\ pc[p] = "ci_returned"
        /\ di[p].Name \in released
        /\ ret[p].err = "drop"
        /\ di[p].Connection = "closed"

\* C19: from the moment NewInstance has sent its CREATE DATABASE until its
\* pgx.Connect has finished, the caller holds the pool's connection: no other
\* caller holds it, no statement of another caller is in flight, and no two
\* callers are at once between pool.Acquire and the return of NewInstance.
C19_GateHeldThroughConnect ==
    \A p \in Callers :
        /\ pc[p] \in {"ni_creating", "ni_connect"} =>
              /\ held = {p}
              /\ \A q \in Callers \ {p} : ~Holding(q)
              /\ \A s \in inflight : s.who = p
        /\ \A q \in Callers \ {p} :
              ~(/\ pc[p] \in {"ni_exec", "ni_creating", "ni_connect"}
                /\ pc[q] \in {"ni_exec", "ni_creating", "ni_connect"})

\* C19's case: a caller is opening the connection to its new database while
\* another caller's NewInstance waits for the pool's connection.
C19_Witness ==
    \E p, q \in Callers :
        /\ pc[p] = "ni_connect"
        /\ pc[q] = "ni_acquire" /\ ~ctxDone[q]

=============================================================================
